---- MODULE Spec2Model ----
(***************************************************************************)
(* A model of foyer/xml_writer.py: write_foyer turns a parameterized       *)
(* ParmEd Structure into a Foyer force-field XML tree.                     *)
(*                                                                         *)
(* Encoding of Python values                                               *)
(*   str         atom-type names are sequences of character codes, so that *)
(*               Python's lexicographic string order can be computed       *)
(*               ("C" = <<67>>, "CT" = <<67,84>>, "HC" = <<72,67>>).       *)
(*   float       fixed-point integers; the unit of every field is stated   *)
(*               where the field is introduced.  round(x, n) is computed   *)
(*               exactly on these decimals (ties to even); str() of the    *)
(*               rounded float is the integer in units of 10^-n.           *)
(*   None        the record None; prev = None is the empty sequence.       *)
(*   Element     [tag, attrib]; text, tail are None and there are no       *)
(*               children on every element the writers create.             *)
(***************************************************************************)
EXTENDS Integers, Sequences, FiniteSets, TLC

VARIABLES struct, forcefield, unique, pc, root, raised, accessed, written

vars == <<struct, forcefield, unique, pc, root, raised, accessed, written>>

None == [none |-> TRUE]

-----------------------------------------------------------------------------
(* Python built-ins used by the writers.                                   *)

Min(a, b) == IF a < b THEN a ELSE b

\* str.__lt__ : lexicographic comparison by code point; a proper prefix is
\* smaller.
RECURSIVE StrLess(_, _)
StrLess(a, b) ==
    IF b = <<>> THEN FALSE
    ELSE IF a = <<>> THEN TRUE
    ELSE IF Head(a) # Head(b) THEN Head(a) < Head(b)
    ELSE StrLess(Tail(a), Tail(b))

\* tuple.__lt__ on tuples of str of equal length.
RECURSIVE TupleLess(_, _)
TupleLess(k1, k2) ==
    IF k1 = <<>> \/ k2 = <<>> THEN k1 = <<>> /\ k2 # <<>>
    ELSE IF Head(k1) # Head(k2) THEN StrLess(Head(k1), Head(k2))
    ELSE TupleLess(Tail(k1), Tail(k2))

\* sorted(list of str): insertion after every element that is not greater.
RECURSIVE InsertStr(_, _)
InsertStr(s, x) ==
    IF s = <<>> THEN <<x>>
    ELSE IF StrLess(x, Head(s)) THEN <<x>> \o s
    ELSE <<Head(s)>> \o InsertStr(Tail(s), x)

RECURSIVE SortedStrs(_)
SortedStrs(s) ==
    IF s = <<>> THEN <<>>
    ELSE InsertStr(SortedStrs(SubSeq(s, 1, Len(s) - 1)), s[Len(s)])

\* list[::-1]
RECURSIVE Reversed(_)
Reversed(s) == IF s = <<>> THEN <<>> ELSE Reversed(Tail(s)) \o <<Head(s)>>

\* round(n / d) for d > 0 on exact values, ties to the even neighbour.
RoundDiv(n, d) ==
    LET q == n \div d
        r == n % d
    IN  IF 2 * r < d THEN q
        ELSE IF 2 * r > d THEN q + 1
        ELSE IF q % 2 = 0 THEN q ELSE q + 1

\* round(t / den * pi * 10^n) for t >= 0, with pi * 10^n = piHi * 10^5 + piLo
\* (np.pi taken to n decimal places),
\* computed in two limbs of five decimal digits; the result is the pair
\* <<high limb, low limb>>.
RadiansRound(t, den, piHi, piLo) ==
    LET lo   == t * piLo
        hiN  == t * piHi + (lo \div 100000)
        loN  == lo % 100000
        qHi  == hiN \div den
        mid  == (hiN % den) * 100000 + loN
        qLo  == mid \div den
        rem  == mid % den
        up   == 2 * rem > den \/ (2 * rem = den /\ qLo % 2 = 1)
        lo2  == IF up THEN qLo + 1 ELSE qLo
    IN  <<qHi + (lo2 \div 100000), lo2 % 100000>>

\* np.isclose(a, b) with rtol = 1e-5, atol = 1e-8 : |a - b| <= atol + rtol*|b|.
\* a2 = 2a and b2 = 2b in units of 10^-6 (b is a half-sum), so the test is
\* |a2 - b2| * 10^5 <= 2000 + |b2|.
Abs(x) == IF x < 0 THEN -x ELSE x

IsClose(a2, b2) == Abs(a2 - b2) <= (2000 + Abs(b2)) \div 100000

\* x ** 0.5 on a perfect square, by bisection (the epsilons of the model are
\* perfect squares, so the geometric mean is exact).
RECURSIVE SqrtBetween(_, _, _)
SqrtBetween(x, lo, hi) ==
    IF lo = hi THEN lo
    ELSE LET m == (lo + hi + 1) \div 2
         IN  IF m * m <= x THEN SqrtBetween(x, m, hi)
             ELSE SqrtBetween(x, lo, m - 1)

Sqrt(x) == SqrtBetween(x, 0, Min(x, 46340))

\* floor and remainder of a * 10^k / b by long division.
RECURSIVE LongDiv(_, _, _)
LongDiv(a, b, k) ==
    IF k = 0 THEN <<a \div b, a % b>>
    ELSE LET p == LongDiv(a, b, k - 1)
         IN  <<p[1] * 10 + ((p[2] * 10) \div b), (p[2] * 10) % b>>

\* (a / b).round(k) in units of 10^-k, for a >= 0, b > 0.
RoundRatio(a, b, k) ==
    LET p == LongDiv(a, b, k)
    IN  IF 2 * p[2] < b THEN p[1]
        ELSE IF 2 * p[2] > b THEN p[1] + 1
        ELSE IF p[1] % 2 = 0 THEN p[1] ELSE p[1] + 1

-----------------------------------------------------------------------------
(* The Structure.  Atoms are referred to by their position in struct.atoms *)
(* (atom.idx is that position, counted from 0).                            *)
(*   atom      [idx, type, sigma (10^-6 A), epsilon (10^-4 kcal/mol),      *)
(*              mass, charge (10^-5 e)]; type is atom.type and             *)
(*              atom.atom_type.name, sigma and epsilon are atom_type's.    *)
(*   bond      [atom1, atom2, type]; type is None or                       *)
(*              [req (10^-4 A), k (10^-2)]                                 *)
(*   angle     [atom1..atom3, type]; type [theteq (0.1 deg), k (10^-2)]    *)
(*   dihedral  [atom1..atom4, improper, type];                             *)
(*              type [per, phase (deg), phi_k (10^-4)]                     *)
(*   rb        [atom1..atom4, type]; type [c0..c5 (10^-5)]                 *)
(*   adjust    [atom1, atom2, type];                                       *)
(*              type [sigma (10^-6 A), epsilon (10^-4), chgscale (10^-2)]  *)

AtomOf(i) == struct.atoms[i]

TypeOf(i) == AtomOf(i).type

IdxOf(i) == AtomOf(i).idx

\* Faulty variant of Parametrized: the type of the first term is not looked at.
ParametrizedByLength(terms) == Len(terms) > 0

\* len(terms) > 0 and terms[0].type is not None        (lines 49, 55-61)
Parametrized(terms) == Len(terms) > 0 /\ terms[1].type # None

\* Position of the first term whose type is None, 0 when there is none: the
\* writer's loop raises AttributeError there (e.g. bond.type.req).
FirstUntyped(terms) ==
    IF \E i \in 1..Len(terms) : terms[i].type = None
    THEN CHOOSE i \in 1..Len(terms) :
            /\ terms[i].type = None
            /\ \A j \in 1..(i - 1) : terms[j].type # None
    ELSE 0

-----------------------------------------------------------------------------
(* Scale inference, lines 238-281.                                         *)

\* _infer_coulomb14scale: [raised, value]
_infer_coulomb14scale(adjusts) ==
    LET coul14 == [i \in 1..Len(adjusts) |-> adjusts[i].type.chgscale]
    IN  IF Cardinality({coul14[i] : i \in 1..Len(coul14)}) = 1
        THEN [raised |-> "none", value |-> coul14[1]]
        ELSE [raised |-> "ValueError: inconsistent 1-4 coulomb scaling factors"]

\* expected_sigma * 2 and expected_epsilon of one adjust (lines 259-262)
ExpectedSigma2(adj) == AtomOf(adj.atom1).sigma + AtomOf(adj.atom2).sigma

ExpectedEpsilon(adj) ==
    Sqrt(AtomOf(adj.atom1).epsilon * AtomOf(adj.atom2).epsilon)

SigmaMatches(adj) == IsClose(2 * adj.type.sigma, ExpectedSigma2(adj))

\* adj.type.epsilon / expected_epsilon as the exact fraction <<num, den>>
Lj14Ratio(adj) == <<adj.type.epsilon, ExpectedEpsilon(adj)>>

\* np.array(lj14scale).round(8), one entry
RoundedRatio(adj) == RoundRatio(adj.type.epsilon, ExpectedEpsilon(adj), 8)

\* _infer_lj14scale: [raised, value]
_infer_lj14scale(adjusts) ==
    IF \E i \in 1..Len(adjusts) : ~SigmaMatches(adjusts[i])
    THEN [raised |-> "ValueError: unexpected 1-4 sigma value"]
    ELSE LET lj14scale == [i \in 1..Len(adjusts) |-> Lj14Ratio(adjusts[i])]
             unique_lj14_scales ==
                 {RoundedRatio(adjusts[i]) : i \in 1..Len(adjusts)}
         IN  IF Cardinality(unique_lj14_scales) = 1
             THEN [raised |-> "none", value |-> lj14scale[1]]
             ELSE [raised |-> "ValueError: inconsistent 1-4 LJ scaling factors"]

-----------------------------------------------------------------------------
(* The document tree: root is the sequence of the sections of <ForceField>,*)
(* each [tag, attrib, children]; it is empty until line 53 has run.        *)

Section(tag, attrib, children) ==
    [tag |-> tag, attrib |-> attrib, children |-> children]

Element(tag, attrib) == [tag |-> tag, attrib |-> attrib]

NoAttrib == <<>>

\* Writers loop over the terms in order; the loop stops with AttributeError
\* at the first term whose type is None, after that term's element has been
\* created and given its ids and types.  LoopEnd is the last term reached.
LoopEnd(terms) ==
    IF FirstUntyped(terms) = 0 THEN Len(terms) ELSE FirstUntyped(terms)

LoopRaised(terms) ==
    IF FirstUntyped(terms) = 0 THEN "none" ELSE "AttributeError"

\* lines 88-98: str(eval(val)) with AttributeError and KeyError giving ''
Lookup(mapping, name) ==
    IF forcefield = None THEN ""
    ELSE IF name \in DOMAIN forcefield[mapping] THEN forcefield[mapping][name]
    ELSE ""

\* lines 84, 87-98
AtomTypeElement(atom) ==
    Element("Type",
            [name    |-> atom.type,
             class   |-> Lookup("atomTypeClasses", atom.type),
             element |-> Lookup("atomTypeElements", atom.type),
             mass    |-> atom.mass,
             def     |-> Lookup("atomTypeDefinitions", atom.type),
             desc    |-> Lookup("atomTypeDesc", atom.type),
             doi     |-> Lookup("atomTypeRefs", atom.type)])

\* lines 85, 100-105
NonbondedElement(atom, unq) ==
    LET a == [type    |-> atom.type,
              charge  |-> RoundDiv(atom.charge, 10),
              sigma   |-> RoundDiv(atom.sigma, 100),
              epsilon |-> RoundDiv(atom.epsilon * 4184, 10)]
    IN  Element("Atom", IF unq THEN a ELSE [id |-> atom.idx] @@ a)

\* _write_atoms, lines 69-105: [sections, raised]
_write_atoms(atoms, unq) ==
    LET coul == _infer_coulomb14scale(struct.adjusts)
        lj   == _infer_lj14scale(struct.adjusts)
    IN  IF coul.raised # "none"
        THEN [sections |-> <<Section("AtomTypes", NoAttrib, <<>>),
                             Section("NonbondedForce", NoAttrib, <<>>)>>,
              raised   |-> coul.raised]
        ELSE IF lj.raised # "none"
        THEN [sections |-> <<Section("AtomTypes", NoAttrib, <<>>),
                             Section("NonbondedForce",
                                     [coulomb14scale |-> coul.value], <<>>)>>,
              raised   |-> lj.raised]
        ELSE [sections |->
                <<Section("AtomTypes", NoAttrib,
                          [i \in 1..Len(atoms) |-> AtomTypeElement(atoms[i])]),
                  Section("NonbondedForce",
                          [coulomb14scale |-> coul.value,
                           lj14scale      |-> lj.value],
                          [i \in 1..Len(atoms) |->
                              NonbondedElement(atoms[i], unq)])>>,
              raised |-> "none"]

-----------------------------------------------------------------------------
(* Bonded terms, lines 107-201.  XxxAtypes is the list atypes at the       *)
(* "for id in range(n)" loop; XxxIds the id attributes set when not unique.*)

\* lines 111-113
BondAtypes(bond, unq) ==
    LET atypes == <<TypeOf(bond.atom1), TypeOf(bond.atom2)>>
    IN  IF unq THEN SortedStrs(atypes) ELSE atypes

\* lines 115-116
BondIds(bond) == [id1 |-> IdxOf(bond.atom1), id2 |-> IdxOf(bond.atom2)]

Types2(atypes) == [type1 |-> atypes[1], type2 |-> atypes[2]]

Types3(atypes) ==
    [type1 |-> atypes[1], type2 |-> atypes[2], type3 |-> atypes[3]]

Types4(atypes) ==
    [type1 |-> atypes[1], type2 |-> atypes[2], type3 |-> atypes[3],
     type4 |-> atypes[4]]

WithIds(ids, attrib, unq) == IF unq THEN attrib ELSE ids @@ attrib

\* the element as it is when bond.type.req raises (lines 110-118)
BondPartial(bond, unq) ==
    Element("Bond", WithIds(BondIds(bond), Types2(BondAtypes(bond, unq)), unq))

\* lines 110-120
BondElement(bond, unq) ==
    Element("Bond",
            BondPartial(bond, unq).attrib @@
            [length |-> RoundDiv(bond.type.req, 10),
             k      |-> RoundDiv(bond.type.k * 8368, 100)])

\* _write_bonds: [section, raised]
_write_bonds(bonds, unq) ==
    [section |->
        Section("HarmonicBondForce", NoAttrib,
                [i \in 1..LoopEnd(bonds) |->
                    IF bonds[i].type = None THEN BondPartial(bonds[i], unq)
                    ELSE BondElement(bonds[i], unq)]),
     raised  |-> LoopRaised(bonds)]

\* lines 126-131: atypes[::2] = sorted(atypes[::2])
AngleAtypes(angle, unq) ==
    LET atypes == <<TypeOf(angle.atom1), TypeOf(angle.atom2),
                    TypeOf(angle.atom3)>>
        ends   == SortedStrs(<<atypes[1], atypes[3]>>)
    IN  IF unq THEN <<ends[1], atypes[2], ends[2]>> ELSE atypes

\* lines 133-135
AngleIds(angle) ==
    [id1 |-> IdxOf(angle.atom1), id2 |-> IdxOf(angle.atom2),
     id3 |-> IdxOf(angle.atom3)]

AnglePartial(angle, unq) ==
    Element("Angle",
            WithIds(AngleIds(angle), Types3(AngleAtypes(angle, unq)), unq))

\* lines 125-139; pi * 10^10 = 314159 * 10^5 + 26536, theteq in 0.1 degree
AngleElement(angle, unq) ==
    Element("Angle",
            AnglePartial(angle, unq).attrib @@
            [angle |-> RadiansRound(angle.type.theteq, 1800, 314159, 26536),
             k     |-> RoundDiv(angle.type.k * 8368, 100)])

\* _write_angles: [section, raised]
_write_angles(angles, unq) ==
    [section |->
        Section("HarmonicAngleForce", NoAttrib,
                [i \in 1..LoopEnd(angles) |->
                    IF angles[i].type = None THEN AnglePartial(angles[i], unq)
                    ELSE AngleElement(angles[i], unq)]),
     raised  |-> LoopRaised(angles)]

\* lines 166-167 and 189-190
ProperAtypes(atypes, unq) ==
    IF unq /\ StrLess(atypes[4], atypes[1]) THEN Reversed(atypes) ELSE atypes

\* Faulty variant of ImproperAtypes: the central atom is not moved to the front.
ImproperAtypesUnswapped(atypes, unq) ==
    IF unq THEN <<atypes[1]>> \o SortedStrs(Tail(atypes)) ELSE atypes

\* lines 156-158
ImproperAtypes(atypes, unq) ==
    LET swapped == <<atypes[3], atypes[2], atypes[1], atypes[4]>>
    IN  IF unq THEN <<swapped[1]>> \o SortedStrs(Tail(swapped)) ELSE swapped

\* lines 149-167
DihedralAtypes(dihedral, unq) ==
    LET atypes == <<TypeOf(dihedral.atom1), TypeOf(dihedral.atom2),
                    TypeOf(dihedral.atom3), TypeOf(dihedral.atom4)>>
    IN  IF dihedral.improper THEN ImproperAtypes(atypes, unq)
        ELSE ProperAtypes(atypes, unq)

\* lines 160-163 and 169-172
DihedralIds(dihedral) ==
    IF dihedral.improper
    THEN [id1 |-> IdxOf(dihedral.atom3), id2 |-> IdxOf(dihedral.atom2),
          id3 |-> IdxOf(dihedral.atom1), id4 |-> IdxOf(dihedral.atom4)]
    ELSE [id1 |-> IdxOf(dihedral.atom1), id2 |-> IdxOf(dihedral.atom2),
          id3 |-> IdxOf(dihedral.atom3), id4 |-> IdxOf(dihedral.atom4)]

\* lines 144-148
DihedralTag(dihedral) == IF dihedral.improper THEN "Improper" ELSE "Proper"

DihedralPartial(dihedral, unq) ==
    Element(DihedralTag(dihedral),
            WithIds(DihedralIds(dihedral),
                    Types4(DihedralAtypes(dihedral, unq)), unq))

\* lines 143-178; pi * 10^8 = 3141 * 10^5 + 59265, phase in degrees
DihedralElement(dihedral, unq) ==
    Element(DihedralTag(dihedral),
            DihedralPartial(dihedral, unq).attrib @@
            [periodicity1 |-> dihedral.type.per,
             phase1 |-> RadiansRound(dihedral.type.phase, 180, 3141, 59265),
             k1     |-> RoundDiv(dihedral.type.phi_k * 4184, 10000)])

\* _write_periodic_torsions: [section, raised]
_write_periodic_torsions(dihedrals, unq) ==
    [section |->
        Section("PeriodicTorsionForce", NoAttrib,
                [i \in 1..LoopEnd(dihedrals) |->
                    IF dihedrals[i].type = None THEN DihedralPartial(dihedrals[i], unq)
                    ELSE DihedralElement(dihedrals[i], unq)]),
     raised  |-> LoopRaised(dihedrals)]

\* lines 184-190
RbAtypes(rb_torsion, unq) ==
    ProperAtypes(<<TypeOf(rb_torsion.atom1), TypeOf(rb_torsion.atom2),
                   TypeOf(rb_torsion.atom3), TypeOf(rb_torsion.atom4)>>, unq)

\* lines 192-195
RbIds(rb_torsion) ==
    [id1 |-> IdxOf(rb_torsion.atom1), id2 |-> IdxOf(rb_torsion.atom2),
     id3 |-> IdxOf(rb_torsion.atom3), id4 |-> IdxOf(rb_torsion.atom4)]

RbPartial(rb_torsion, unq) ==
    Element("Proper",
            WithIds(RbIds(rb_torsion), Types4(RbAtypes(rb_torsion, unq)), unq))

\* lines 183-201
RbElement(rb_torsion, unq) ==
    LET c == rb_torsion.type
    IN  Element("Proper",
                RbPartial(rb_torsion, unq).attrib @@
                [c0 |-> RoundDiv(c.c0 * 4184, 10000),
                 c1 |-> RoundDiv(c.c1 * 4184, 10000),
                 c2 |-> RoundDiv(c.c2 * 4184, 10000),
                 c3 |-> RoundDiv(c.c3 * 4184, 10000),
                 c4 |-> RoundDiv(c.c4 * 4184, 10000),
                 c5 |-> RoundDiv(c.c5 * 4184, 10000)])

\* _write_rb_torsions: [section, raised]
_write_rb_torsions(rb_torsions, unq) ==
    [section |->
        Section("RBTorsionForce", NoAttrib,
                [i \in 1..LoopEnd(rb_torsions) |->
                    IF rb_torsions[i].type = None THEN RbPartial(rb_torsions[i], unq)
                    ELSE RbElement(rb_torsions[i], unq)]),
     raised  |-> LoopRaised(rb_torsions)]

-----------------------------------------------------------------------------
(* _remove_duplicate_elements and _elements_equal, lines 203-236.          *)

\* lines 204-209
sortby(tag) ==
    CASE tag = "AtomTypes"            -> <<"name">>
      [] tag = "HarmonicBondForce"    -> <<"type1", "type2">>
      [] tag = "HarmonicAngleForce"   -> <<"type1", "type2", "type3">>
      [] tag = "PeriodicTorsionForce" -> <<"type1", "type2", "type3", "type4">>
      [] tag = "RBTorsionForce"       -> <<"type1", "type2", "type3", "type4">>
      [] tag = "NonbondedForce"       -> <<"type">>

\* elem.get(id)
Get(elem, id) == IF id \in DOMAIN elem.attrib THEN elem.attrib[id] ELSE None

\* line 215: tuple(elem.get(id) for id in sortby[child.tag])
SortKey(elem, tag) == [i \in 1..Len(sortby(tag)) |-> Get(elem, sortby(tag)[i])]

\* sorted(child, key=...) is stable: an element goes after every element
\* whose key is not greater.
RECURSIVE InsertElem(_, _, _)
InsertElem(s, x, tag) ==
    IF s = <<>> THEN <<x>>
    ELSE IF TupleLess(SortKey(x, tag), SortKey(Head(s), tag)) THEN <<x>> \o s
    ELSE <<Head(s)>> \o InsertElem(Tail(s), x, tag)

\* Faulty variant of SortedElems: the children are left in document order.
SortedElemsUnsorted(s, tag) == s

RECURSIVE SortedElems(_, _)
SortedElems(s, tag) ==
    IF s = <<>> THEN <<>>
    ELSE InsertElem(SortedElems(SubSeq(s, 1, Len(s) - 1), tag), s[Len(s)], tag)

\* Faulty variant of _elements_equal: only type1..type4 are compared, as
\* e1.get(t) == e2.get(t).
ElementsEqualByTypes(e1, prev) ==
    IF prev = <<>> THEN FALSE
    ELSE \A t \in {"type1", "type2", "type3", "type4"} :
            /\ (t \in DOMAIN e1.attrib) = (t \in DOMAIN prev[1].attrib)
            /\ t \in DOMAIN e1.attrib => e1.attrib[t] = prev[1].attrib[t]

\* _elements_equal(e1, e2), lines 230-236, with prev = None as <<>>.
\* Line 231 compares e1.tag with e1.tag.  text and tail are None and len()
\* is 0 on both elements.
_elements_equal(e1, prev) ==
    IF prev = <<>> THEN FALSE
    ELSE LET e2 == prev[1]
         IN  /\ ~(e1.tag # e1.tag)
             /\ e1.attrib = e2.attrib

\* Faulty variant of ScanChildren: a duplicate is removed from the child
\* while the loop runs over it, so the loop passes over the element that
\* follows a removed one.
RECURSIVE ScanChildrenSkipping(_, _)
ScanChildrenSkipping(s, prev) ==
    IF s = <<>> THEN [kept |-> <<>>, prev |-> prev]
    ELSE IF _elements_equal(Head(s), prev)
    THEN IF Tail(s) = <<>> THEN [kept |-> <<>>, prev |-> prev]
         ELSE LET r == ScanChildrenSkipping(Tail(Tail(s)), prev)
              IN  [kept |-> <<Head(Tail(s))>> \o r.kept, prev |-> r.prev]
    ELSE LET r == ScanChildrenSkipping(Tail(s), <<Head(s)>>)
         IN  [kept |-> <<Head(s)>> \o r.kept, prev |-> r.prev]

\* lines 216-223 on the sorted children: [kept, prev]
RECURSIVE ScanChildren(_, _)
ScanChildren(s, prev) ==
    IF s = <<>> THEN [kept |-> <<>>, prev |-> prev]
    ELSE IF _elements_equal(Head(s), prev) THEN ScanChildren(Tail(s), prev)
    ELSE LET r == ScanChildren(Tail(s), <<Head(s)>>)
         IN  [kept |-> <<Head(s)>> \o r.kept, prev |-> r.prev]

\* Faulty variant of DedupFrom: every section is sorted and scanned, in
\* either mode.
RECURSIVE DedupFromEverySection(_, _, _)
DedupFromEverySection(sections, prev, unq) ==
    IF sections = <<>> THEN [sections |-> <<>>, prev |-> prev]
    ELSE LET child == Head(sections)
             r == ScanChildren(SortedElems(child.children, child.tag), prev)
             rest == DedupFromEverySection(Tail(sections), r.prev, unq)
         IN  [sections |-> <<[child EXCEPT !.children = r.kept]>>
                           \o rest.sections,
              prev     |-> rest.prev]

\* lines 211-223 from one child of root on, prev carried along:
\* [sections, prev]
RECURSIVE DedupFrom(_, _, _)
DedupFrom(sections, prev, unq) ==
    IF sections = <<>> THEN [sections |-> <<>>, prev |-> prev]
    ELSE LET child == Head(sections)
         IN  IF ~unq /\ child.tag # "AtomTypes"
             THEN LET rest == DedupFrom(Tail(sections), prev, unq)
                  IN  [sections |-> <<child>> \o rest.sections,
                       prev     |-> rest.prev]
             ELSE LET r == ScanChildren(SortedElems(child.children, child.tag),
                                        prev)
                      rest == DedupFrom(Tail(sections), r.prev, unq)
                  IN  [sections |-> <<[child EXCEPT !.children = r.kept]>>
                                    \o rest.sections,
                       prev     |-> rest.prev]

\* _remove_duplicate_elements(root, unique), line 210: prev = None
_remove_duplicate_elements(rt, unq) == DedupFrom(rt, <<>>, unq).sections

-----------------------------------------------------------------------------
(* write_foyer, lines 49-66, one action per statement.                     *)

Raise(error) ==
    /\ pc' = "failed"
    /\ raised' = error

\* lines 49-53
CheckParametrized ==
    /\ pc = "check"
    /\ accessed' = accessed \cup {"bonds"}
    /\ IF ~Parametrized(struct.bonds)
       THEN /\ Raise("Exception: unparametrized Structure")
            /\ UNCHANGED root
       ELSE /\ root' = <<>>
            /\ pc' = "atoms"
            /\ UNCHANGED raised
    /\ UNCHANGED <<struct, forcefield, unique, written>>

\* line 54
WriteAtoms ==
    /\ pc = "atoms"
    /\ accessed' = accessed \cup {"atoms", "adjusts"}
    /\ LET w == _write_atoms(struct.atoms, unique)
       IN  /\ root' = root \o w.sections
           /\ IF w.raised # "none" THEN Raise(w.raised)
              ELSE pc' = "bonds" /\ UNCHANGED raised
    /\ UNCHANGED <<struct, forcefield, unique, written>>

\* one "if len(terms) > 0 and terms[0].type is not None: _write(...)"
WriteStep(here, name, terms, w, next) ==
    /\ pc = here
    /\ accessed' = accessed \cup {name}
    /\ IF ~Parametrized(terms)
       THEN /\ pc' = next
            /\ UNCHANGED <<root, raised>>
       ELSE /\ root' = Append(root, w.section)
            /\ IF w.raised # "none" THEN Raise(w.raised)
               ELSE pc' = next /\ UNCHANGED raised
    /\ UNCHANGED <<struct, forcefield, unique, written>>

\* lines 55-56
WriteBonds ==
    WriteStep("bonds", "bonds", struct.bonds,
              _write_bonds(struct.bonds, unique), "angles")

\* lines 57-58
WriteAngles ==
    WriteStep("angles", "angles", struct.angles,
              _write_angles(struct.angles, unique), "dihedrals")

\* lines 59-60
WritePeriodicTorsions ==
    WriteStep("dihedrals", "dihedrals", struct.dihedrals,
              _write_periodic_torsions(struct.dihedrals, unique),
              "rb_torsions")

\* lines 61-62
WriteRbTorsions ==
    WriteStep("rb_torsions", "rb_torsions", struct.rb_torsions,
              _write_rb_torsions(struct.rb_torsions, unique), "dedup")

\* line 64
RemoveDuplicateElements ==
    /\ pc = "dedup"
    /\ root' = _remove_duplicate_elements(root, unique)
    /\ pc' = "write"
    /\ UNCHANGED <<struct, forcefield, unique, raised, accessed, written>>

\* line 66
WriteFile ==
    /\ pc = "write"
    /\ written' = <<root>>
    /\ pc' = "done"
    /\ UNCHANGED <<struct, forcefield, unique, root, raised, accessed>>

Next ==
    \/ CheckParametrized
    \/ WriteAtoms
    \/ WriteBonds
    \/ WriteAngles
    \/ WritePeriodicTorsions
    \/ WriteRbTorsions
    \/ RemoveDuplicateElements
    \/ WriteFile

-----------------------------------------------------------------------------
(* The Structures write_foyer is run on.                                   *)

MaxTerms == 3

C  == <<67>>
CT == <<67, 84>>
HC == <<72, 67>>

TypeNames == {C, CT, HC}

\* atom_type parameters by name: sigma (10^-6 A), epsilon (10^-4 kcal/mol)
\* and the atom's mass (10^-3)
AtomTypeOf(name) ==
    CASE name = C  -> [sigma |-> 3750000, epsilon |-> 1024, mass |-> 12011]
      [] name = CT -> [sigma |-> 3500000, epsilon |-> 676,  mass |-> 12011]
      [] name = HC -> [sigma |-> 2500000, epsilon |-> 324,  mass |-> 1008]

\* charges (10^-5 e) by position; the second and third round to the same
\* four decimals
Charges == <<-18003, 6000, 6004, 6000>>

AtomsTyped(names) ==
    [i \in 1..Len(names) |->
        [idx     |-> i - 1,
         type    |-> names[i],
         sigma   |-> AtomTypeOf(names[i]).sigma,
         epsilon |-> AtomTypeOf(names[i]).epsilon,
         mass    |-> AtomTypeOf(names[i]).mass,
         charge  |-> Charges[i]]]

BaseNames == <<CT, HC, C, CT>>

Term2(a, t) == [atom1 |-> a[1], atom2 |-> a[2], type |-> t]

Term3(a, t) == [atom1 |-> a[1], atom2 |-> a[2], atom3 |-> a[3], type |-> t]

Term4(a, t) ==
    [atom1 |-> a[1], atom2 |-> a[2], atom3 |-> a[3], atom4 |-> a[4],
     type |-> t]

Dihedral(a, improper, t) ==
    [atom1 |-> a[1], atom2 |-> a[2], atom3 |-> a[3], atom4 |-> a[4],
     improper |-> improper, type |-> t]

\* the first two bond types differ before and agree after conversion
BondTypes ==
    {[req |-> 10900, k |-> 34000], [req |-> 10904, k |-> 34000],
     [req |-> 15290, k |-> 26800]}

BondPool ==
    {Term2(a, t) : a \in {<<1, 2>>, <<2, 1>>}, t \in BondTypes}
    \cup {Term2(<<2, 3>>, None)}

AngleTypes == {[theteq |-> 1095, k |-> 3750], [theteq |-> 1077, k |-> 3300]}

AnglePool ==
    {Term3(a, t) : a \in {<<1, 2, 3>>, <<3, 2, 1>>}, t \in AngleTypes}
    \cup {Term3(<<2, 3, 4>>, None)}

DihedralTypes ==
    {[per |-> 2, phase |-> 180, phi_k |-> 36250],
     [per |-> 3, phase |-> 0, phi_k |-> 1500]}

DihedralPool ==
    {Dihedral(<<1, 2, 3, 4>>, FALSE, t) : t \in DihedralTypes}
    \cup {Dihedral(<<2, 3, 1, 4>>, TRUE, t) : t \in DihedralTypes}
    \cup {Dihedral(<<4, 3, 2, 1>>, FALSE,
                   [per |-> 2, phase |-> 180, phi_k |-> 36250]),
          Dihedral(<<1, 3, 4, 2>>, FALSE,
                   [per |-> 2, phase |-> 180, phi_k |-> 36250]),
          Dihedral(<<1, 2, 3, 4>>, FALSE, None)}

RbTypes ==
    {[c0 |-> 30000, c1 |-> -12500, c2 |-> 0, c3 |-> 62504, c4 |-> 0,
      c5 |-> 0],
     [c0 |-> 30000, c1 |-> -12500, c2 |-> 0, c3 |-> 62500, c4 |-> 0,
      c5 |-> 0]}

RbPool ==
    {Term4(a, t) : a \in {<<1, 2, 3, 4>>, <<4, 3, 2, 1>>}, t \in RbTypes}
    \cup {Term4(<<2, 1, 3, 4>>, None)}

\* 1-4 pairs (1,4) = CT-CT and (2,3) = HC-C with matching, nearly matching
\* and mismatching sigma, two epsilon ratios and two chgscales
AdjustPool ==
    {Term2(<<1, 4>>, [sigma |-> 3500000, epsilon |-> 338, chgscale |-> 50]),
     Term2(<<1, 4>>, [sigma |-> 3500030, epsilon |-> 338, chgscale |-> 50]),
     Term2(<<1, 4>>, [sigma |-> 3600000, epsilon |-> 338, chgscale |-> 50]),
     Term2(<<1, 4>>, [sigma |-> 3500000, epsilon |-> 338, chgscale |-> 83]),
     Term2(<<1, 4>>, [sigma |-> 3500000, epsilon |-> 676, chgscale |-> 50]),
     Term2(<<2, 3>>, [sigma |-> 3125000, epsilon |-> 288, chgscale |-> 50])}

\* a foyer.Forcefield with entries for some of the atom types
SomeForcefield ==
    [atomTypeClasses     |-> (CT :> "CT") @@ (HC :> "HC"),
     atomTypeElements    |-> (CT :> "C") @@ (HC :> "H") @@ (C :> "C"),
     atomTypeDefinitions |-> (CT :> "[C;X4]"),
     atomTypeDesc        |-> (HC :> "alkane H"),
     atomTypeRefs        |-> (CT :> "10.1021/ja9621760")]

SeqsUpTo(S, n) == UNION {[1..m -> S] : m \in 0..n}

BaseStruct ==
    [atoms       |-> AtomsTyped(BaseNames),
     bonds       |-> <<Term2(<<1, 2>>, [req |-> 10900, k |-> 34000]),
                       Term2(<<2, 3>>, [req |-> 15290, k |-> 26800])>>,
     angles      |-> <<Term3(<<1, 2, 3>>, [theteq |-> 1095, k |-> 3750])>>,
     dihedrals   |-> <<Dihedral(<<1, 2, 3, 4>>, FALSE,
                                [per |-> 2, phase |-> 180, phi_k |-> 36250]),
                       Dihedral(<<2, 3, 1, 4>>, TRUE,
                                [per |-> 2, phase |-> 180, phi_k |-> 36250])>>,
     rb_torsions |-> <<Term4(<<1, 2, 3, 4>>,
                             [c0 |-> 30000, c1 |-> -12500, c2 |-> 0,
                              c3 |-> 62500, c4 |-> 0, c5 |-> 0])>>,
     adjusts     |-> <<Term2(<<1, 4>>, [sigma |-> 3500000, epsilon |-> 338,
                                        chgscale |-> 50])>>]

\* The base Structure with one of its collections replaced, or with another
\* typing of its atoms
InitStruct ==
    \/ \E b \in SeqsUpTo(BondPool, MaxTerms) :
          struct = [BaseStruct EXCEPT !.bonds = b] /\ forcefield = None
    \/ \E a \in SeqsUpTo(AnglePool, MaxTerms) :
          struct = [BaseStruct EXCEPT !.angles = a] /\ forcefield = None
    \/ \E d \in SeqsUpTo(DihedralPool, MaxTerms) :
          struct = [BaseStruct EXCEPT !.dihedrals = d] /\ forcefield = None
    \/ \E r \in SeqsUpTo(RbPool, MaxTerms) :
          struct = [BaseStruct EXCEPT !.rb_torsions = r] /\ forcefield = None
    \/ \E j \in SeqsUpTo(AdjustPool, MaxTerms) :
          struct = [BaseStruct EXCEPT !.adjusts = j] /\ forcefield = None
    \/ \E names \in [1..Len(BaseNames) -> TypeNames] :
          /\ struct = [BaseStruct EXCEPT !.atoms = AtomsTyped(names)]
          /\ forcefield \in {None, SomeForcefield}

Init ==
    /\ InitStruct
    /\ unique \in BOOLEAN
    /\ pc = "check"
    /\ root = <<>>
    /\ raised = "none"
    /\ accessed = {}
    /\ written = <<>>

Spec == Init /\ [][Next]_vars

-----------------------------------------------------------------------------
(* Properties.                                                             *)

HasSec(tag) == \E i \in 1..Len(root) : root[i].tag = tag

Sec(tag) == root[CHOOSE i \in 1..Len(root) : root[i].tag = tag]

\* every writer has run and none has raised; root is as emitted
Emitted == pc = "dedup"

\* _remove_duplicate_elements has run
Deduplicated == pc \in {"write", "done"}

Rev2(t) == [t EXCEPT !.atom1 = t.atom2, !.atom2 = t.atom1]

Rev3(t) == [t EXCEPT !.atom1 = t.atom3, !.atom3 = t.atom1]

Rev4(t) ==
    [t EXCEPT !.atom1 = t.atom4, !.atom2 = t.atom3, !.atom3 = t.atom2,
              !.atom4 = t.atom1]

\* the type1..typeN of the i-th entry of a section
KeyAt(tag, i) == SortKey(Sec(tag).children[i], tag)

\* C1: in unique mode the type1..typeN key emitted for a bond, an angle, a
\* proper periodic torsion or an RB torsion is the key emitted for the same
\* term read in reversed atom order.
C1_KeySymmetric ==
    (Emitted /\ unique) =>
        /\ \A i \in 1..Len(struct.bonds) :
              KeyAt("HarmonicBondForce", i)
                  = SortKey(BondElement(Rev2(struct.bonds[i]), TRUE),
                            "HarmonicBondForce")
        /\ HasSec("HarmonicAngleForce") =>
              \A i \in 1..Len(struct.angles) :
                 KeyAt("HarmonicAngleForce", i)
                     = SortKey(AngleElement(Rev3(struct.angles[i]), TRUE),
                               "HarmonicAngleForce")
        /\ HasSec("PeriodicTorsionForce") =>
              \A i \in 1..Len(struct.dihedrals) :
                 ~struct.dihedrals[i].improper =>
                    KeyAt("PeriodicTorsionForce", i)
                        = SortKey(DihedralElement(Rev4(struct.dihedrals[i]),
                                                  TRUE),
                                  "PeriodicTorsionForce")
        /\ HasSec("RBTorsionForce") =>
              \A i \in 1..Len(struct.rb_torsions) :
                 KeyAt("RBTorsionForce", i)
                     = SortKey(RbElement(Rev4(struct.rb_torsions[i]), TRUE),
                               "RBTorsionForce")

\* the number of entries of a section equal to an element
CountIn(tag, elem) ==
    Cardinality({i \in 1..Len(Sec(tag).children) :
                    Sec(tag).children[i] = elem})

\* C2: in unique mode all bonds with the same unordered type pair and the
\* same converted length and k end up as exactly one Bond entry of
\* HarmonicBondForce, keyed with type1 <= type2.
C2_OneEntryPerBond ==
    (Deduplicated /\ unique) =>
        \A i \in 1..Len(struct.bonds) :
           LET e == BondElement(struct.bonds[i], TRUE)
           IN  /\ CountIn("HarmonicBondForce", e) = 1
               /\ ~StrLess(e.attrib.type2, e.attrib.type1)

\* C3 as claimed: after deduplication in unique mode no two entries of a
\* section have the same Canonical Key.
C3_KeysUnique ==
    (Deduplicated /\ unique) =>
        \A s \in 1..Len(root) :
           \A i, j \in 1..Len(root[s].children) :
              i # j => SortKey(root[s].children[i], root[s].tag)
                       # SortKey(root[s].children[j], root[s].tag)

\* C3 as amended: after deduplication in unique mode the entries of every
\* section are in Canonical Key order and no two adjacent entries are
\* identical (same tag and attributes); entries with one key that differ in
\* another attribute are both retained.
C3_NoAdjacentDuplicates ==
    (Deduplicated /\ unique) =>
        \A s \in 1..Len(root) :
           \A i \in 1..(Len(root[s].children) - 1) :
              LET e1 == root[s].children[i]
                  e2 == root[s].children[i + 1]
              IN  /\ ~TupleLess(SortKey(e2, root[s].tag),
                                SortKey(e1, root[s].tag))
                  /\ ~(e1.tag = e2.tag /\ e1.attrib = e2.attrib)

\* C3 witness: a deduplicated bond section that lost a duplicate and keeps
\* two entries with one key
C3_Witness ==
    /\ pc = "done" /\ unique
    /\ Len(Sec("HarmonicBondForce").children) = 2
    /\ Len(struct.bonds) = 3
    /\ KeyAt("HarmonicBondForce", 1) = KeyAt("HarmonicBondForce", 2)


CoulombError == "ValueError: inconsistent 1-4 coulomb scaling factors"

SigmaError == "ValueError: unexpected 1-4 sigma value"

LjError == "ValueError: inconsistent 1-4 LJ scaling factors"

OneChgscale ==
    \A i, j \in 1..Len(struct.adjusts) :
       struct.adjusts[i].type.chgscale = struct.adjusts[j].type.chgscale

SigmasMatch == \A i \in 1..Len(struct.adjusts) : SigmaMatches(struct.adjusts[i])

OneRatio ==
    \A i, j \in 1..Len(struct.adjusts) :
       RoundedRatio(struct.adjusts[i]) = RoundedRatio(struct.adjusts[j])

\* _write_atoms has run
AtomsWritten == "adjusts" \in accessed

\* C4: over every adjustment list, the empty one included: when all
\* adjustments share one chgscale, all sigmas match and all rounded ratios
\* are one value, both inferences succeed and return that chgscale and the
\* first ratio; otherwise the run fails with the error of the condition
\* that does not hold.
C4_ScaleInferenceTotal ==
    AtomsWritten =>
        IF OneChgscale /\ SigmasMatch /\ OneRatio
        THEN /\ raised \notin {CoulombError, SigmaError, LjError}
             /\ Len(struct.adjusts) > 0 =>
                   Sec("NonbondedForce").attrib
                       = [coulomb14scale |-> struct.adjusts[1].type.chgscale,
                          lj14scale |-> <<struct.adjusts[1].type.epsilon,
                                          ExpectedEpsilon(struct.adjusts[1])>>]
        ELSE /\ pc = "failed"
             /\ \/ raised = CoulombError /\ ~OneChgscale
                \/ raised = SigmaError /\ ~SigmasMatch
                \/ raised = LjError /\ ~OneRatio

\* C5: with no bonds, or a first bond without a type, write_foyer fails
\* before any writer runs: no section is created, no scale is inferred,
\* angles, dihedrals and RB torsions are not read and no file is written.
C5_FailsBeforeEmission ==
    (Len(struct.bonds) = 0 \/ struct.bonds[1].type = None) =>
        /\ pc \in {"check", "failed"}
        /\ pc = "failed" => raised = "Exception: unparametrized Structure"
        /\ root = <<>>
        /\ accessed \subseteq {"bonds"}
        /\ written = <<>>

\* C5 witness: the run has failed on a first bond without a type
C5_Witness ==
    /\ pc = "failed"
    /\ Len(struct.bonds) = 2
    /\ struct.bonds[1].type = None
    /\ struct.bonds[2].type # None

HasIds(elem, ids) ==
    /\ DOMAIN ids \subseteq DOMAIN elem.attrib
    /\ \A n \in DOMAIN ids : elem.attrib[n] = ids[n]

\* what C6 says of every kind but the improper torsions, and of the sizes
PerInstanceOthers ==
    /\ Len(Sec("NonbondedForce").children) = Len(struct.atoms)
    /\ \A i \in 1..Len(struct.atoms) :
          HasIds(Sec("NonbondedForce").children[i], [id |-> i - 1])
    /\ HasSec("HarmonicBondForce")
    /\ Len(Sec("HarmonicBondForce").children) = Len(struct.bonds)
    /\ \A i \in 1..Len(struct.bonds) :
          LET b == struct.bonds[i]
          IN  /\ KeyAt("HarmonicBondForce", i)
                    = <<TypeOf(b.atom1), TypeOf(b.atom2)>>
              /\ HasIds(Sec("HarmonicBondForce").children[i],
                        [id1 |-> IdxOf(b.atom1), id2 |-> IdxOf(b.atom2)])
    /\ HasSec("HarmonicAngleForce") <=> Parametrized(struct.angles)
    /\ HasSec("HarmonicAngleForce") =>
          /\ Len(Sec("HarmonicAngleForce").children) = Len(struct.angles)
          /\ \A i \in 1..Len(struct.angles) :
                LET a == struct.angles[i]
                IN  /\ KeyAt("HarmonicAngleForce", i)
                          = <<TypeOf(a.atom1), TypeOf(a.atom2),
                              TypeOf(a.atom3)>>
                    /\ HasIds(Sec("HarmonicAngleForce").children[i],
                              [id1 |-> IdxOf(a.atom1), id2 |-> IdxOf(a.atom2),
                               id3 |-> IdxOf(a.atom3)])
    /\ HasSec("PeriodicTorsionForce") <=> Parametrized(struct.dihedrals)
    /\ HasSec("PeriodicTorsionForce") =>
          /\ Len(Sec("PeriodicTorsionForce").children)
                = Len(struct.dihedrals)
          /\ \A i \in 1..Len(struct.dihedrals) :
                LET d == struct.dihedrals[i]
                IN  ~d.improper =>
                       /\ KeyAt("PeriodicTorsionForce", i)
                             = <<TypeOf(d.atom1), TypeOf(d.atom2),
                                 TypeOf(d.atom3), TypeOf(d.atom4)>>
                       /\ HasIds(Sec("PeriodicTorsionForce").children[i],
                                 [id1 |-> IdxOf(d.atom1),
                                  id2 |-> IdxOf(d.atom2),
                                  id3 |-> IdxOf(d.atom3),
                                  id4 |-> IdxOf(d.atom4)])
    /\ HasSec("RBTorsionForce") <=> Parametrized(struct.rb_torsions)
    /\ HasSec("RBTorsionForce") =>
          /\ Len(Sec("RBTorsionForce").children) = Len(struct.rb_torsions)
          /\ \A i \in 1..Len(struct.rb_torsions) :
                LET t == struct.rb_torsions[i]
                IN  /\ KeyAt("RBTorsionForce", i)
                          = <<TypeOf(t.atom1), TypeOf(t.atom2),
                              TypeOf(t.atom3), TypeOf(t.atom4)>>
                    /\ HasIds(Sec("RBTorsionForce").children[i],
                              [id1 |-> IdxOf(t.atom1), id2 |-> IdxOf(t.atom2),
                               id3 |-> IdxOf(t.atom3), id4 |-> IdxOf(t.atom4)])

\* the improper torsions' entries carry the types and ids of the given atoms
ImpropersAre(a, b, c, d) ==
    HasSec("PeriodicTorsionForce") =>
       \A i \in 1..Len(struct.dihedrals) :
          LET t == struct.dihedrals[i]
              at == [n \in 1..4 |-> t[<<"atom1", "atom2", "atom3", "atom4">>[n]]]
          IN  t.improper =>
                 /\ KeyAt("PeriodicTorsionForce", i)
                       = <<TypeOf(at[a]), TypeOf(at[b]), TypeOf(at[c]),
                           TypeOf(at[d])>>
                 /\ HasIds(Sec("PeriodicTorsionForce").children[i],
                           [id1 |-> IdxOf(at[a]), id2 |-> IdxOf(at[b]),
                            id3 |-> IdxOf(at[c]), id4 |-> IdxOf(at[d])])

\* C6 as claimed: in per-instance mode every term of every kind, improper
\* torsions included, is written with its types in the order atom1..atomN
\* and with its ids, and every section other than AtomTypes keeps one
\* entry per term.
C6_PerInstanceOriginalOrder ==
    (Deduplicated /\ ~unique) =>
        PerInstanceOthers /\ ImpropersAre(1, 2, 3, 4)

\* C6 as amended: in per-instance mode every bond, angle, proper torsion and
\* RB torsion is written with its types in the order atom1..atomN, every
\* improper torsion with the types of atom3, atom2, atom1, atom4 in that
\* order, each with the ids of the same atoms in the same order, and every
\* section other than AtomTypes keeps one entry per term, in input order.
C6_PerInstanceOrder ==
    (Deduplicated /\ ~unique) =>
        PerInstanceOthers /\ ImpropersAre(3, 2, 1, 4)

\* C6 witness: a finished per-instance run with an improper torsion whose
\* first and third atoms differ in type and with two equal bonds
C6_Witness ==
    /\ pc = "done" /\ ~unique
    /\ \E i \in 1..Len(struct.dihedrals) :
          /\ struct.dihedrals[i].improper
          /\ TypeOf(struct.dihedrals[i].atom1)
                # TypeOf(struct.dihedrals[i].atom3)
    /\ \E i, j \in 1..Len(struct.bonds) :
          i < j /\ TypeOf(struct.bonds[i].atom1) = TypeOf(struct.bonds[j].atom1)


\* C7: in unique mode a Proper and an Improper entry of PeriodicTorsionForce
\* with identical attributes are both retained by the deduplication.
C7_ProperAndImproperKept ==
    (Deduplicated /\ unique /\ HasSec("PeriodicTorsionForce")) =>
        \A i, j \in 1..Len(struct.dihedrals) :
           LET p == DihedralElement(struct.dihedrals[i], TRUE)
               q == DihedralElement(struct.dihedrals[j], TRUE)
           IN  (p.tag = "Proper" /\ q.tag = "Improper" /\ p.attrib = q.attrib)
               => /\ CountIn("PeriodicTorsionForce", p) >= 1
                  /\ CountIn("PeriodicTorsionForce", q) >= 1

\* C8: the deduplication step never removes the first entry of a section by
\* comparing it with the last kept entry of an earlier section: every
\* section that had entries keeps the first entry of its sorted entries (of
\* its entries as they were, where the section is not processed).
C8_NoMergeAcrossSections ==
    [][pc = "dedup" =>
          /\ Len(root') = Len(root)
          /\ \A s \in 1..Len(root) :
                /\ root'[s].tag = root[s].tag
                /\ root[s].children # <<>> =>
                      /\ root'[s].children # <<>>
                      /\ root'[s].children[1]
                            = IF ~unique /\ root[s].tag # "AtomTypes"
                              THEN root[s].children[1]
                              ELSE SortedElems(root[s].children,
                                               root[s].tag)[1]]_vars

\* C8 witness: a deduplicated tree with all six sections in which the first
\* RB torsion has the types of the last periodic torsion
C8_Witness ==
    /\ pc = "write" /\ unique
    /\ Len(root) = 6
    /\ KeyAt("RBTorsionForce", 1)
          = KeyAt("PeriodicTorsionForce",
                  Len(Sec("PeriodicTorsionForce").children))

\* C9: deduplication is idempotent: applied to the deduplicated tree it
\* returns that tree, in either mode.
C9_DedupIdempotent ==
    Deduplicated => _remove_duplicate_elements(root, unique) = root

\* C9 witness: a deduplicated tree from which duplicates were removed, three
\* equal bond entries among them
C9_Witness ==
    /\ pc = "write" /\ unique
    /\ Len(struct.bonds) = 3
    /\ Len(Sec("HarmonicBondForce").children) = 1

\* s is a rearrangement of t (both of length 3)
IsPermutation3(s, t) ==
    \E f \in [1..3 -> 1..3] :
       /\ \A a, b \in 1..3 : a # b => f[a] # f[b]
       /\ \A a \in 1..3 : s[a] = t[f[a]]

\* C10: as emitted, an improper torsion (a1,a2,a3,a4) has in unique mode
\* type1 = type of a3 and type2..type4 = the types of a1, a2, a4 in
\* lexicographic order; in per-instance mode id1..id4 = idx of a3, a2, a1,
\* a4 and each typeK is the type of the atom whose index is idK.
C10_ImproperCentralFirst ==
    (Emitted /\ HasSec("PeriodicTorsionForce")) =>
        \A i \in 1..Len(struct.dihedrals) :
           LET d == struct.dihedrals[i]
               e == Sec("PeriodicTorsionForce").children[i]
               k == KeyAt("PeriodicTorsionForce", i)
           IN  d.improper =>
                  IF unique
                  THEN /\ k[1] = TypeOf(d.atom3)
                       /\ IsPermutation3(Tail(k), <<TypeOf(d.atom1),
                                                    TypeOf(d.atom2),
                                                    TypeOf(d.atom4)>>)
                       /\ ~StrLess(k[3], k[2])
                       /\ ~StrLess(k[4], k[3])
                  ELSE /\ HasIds(e, [id1 |-> IdxOf(d.atom3),
                                     id2 |-> IdxOf(d.atom2),
                                     id3 |-> IdxOf(d.atom1),
                                     id4 |-> IdxOf(d.atom4)])
                       /\ \A n \in 1..4 :
                             \E a \in 1..Len(struct.atoms) :
                                /\ struct.atoms[a].idx
                                      = Get(e, <<"id1", "id2", "id3",
                                                 "id4">>[n])
                                /\ struct.atoms[a].type = k[n]

\* C10 witness: an emitted improper torsion whose atoms are not in key order
C10_Witness ==
    /\ Emitted /\ unique
    /\ \E i \in 1..Len(struct.dihedrals) :
          LET d == struct.dihedrals[i]
          IN  /\ d.improper
              /\ TypeOf(d.atom1) # TypeOf(d.atom3)
              /\ StrLess(TypeOf(d.atom4), TypeOf(d.atom2))

====
